---- MODULE Spec2Model ----
(***************************************************************************)
(* Model of the protocol-locked answering engine of doseguide-ai           *)
(* (netlify/functions/ask.mjs): the evidence sanitizer as a pure function  *)
(* and the two-stage handler (extract -> sanitize -> compose -> verify ->  *)
(* render) as a state machine whose steps are the handler's code between   *)
(* two awaits.                                                             *)
(*                                                                         *)
(* JavaScript strings are sequences of chunks.  Text that the code         *)
(* measures or rewrites (quotes, hints, notes) is spelled one character    *)
(* per chunk; the handler's fixed messages are single chunks, since the    *)
(* code only copies and compares them.  Arabic literals are written as     *)
(* ASCII stand-ins prefixed "[ar]".                                        *)
(***************************************************************************)
EXTENDS Integers, Sequences, FiniteSets, TLC

VARIABLES
    pc,             \* where the handler is: "idle", "extracting" (awaiting the
                    \* first fetch), "composing" (awaiting the second), "done"
                    \* (a response was returned), "threw" (an exception escaped)
    req,            \* the request's normalised fields (drugKey, lang, mode, ...)
    extractCall,    \* the evidence-extraction fetch: times issued, state, reply
    composeCall,    \* the answer-composition fetch: times issued, state, reply
    evidenceResult, \* what enforceEvidenceSanity returned for this request
    response,       \* the response the handler returned
    sanPc,          \* sanitizer harness: "in" before the call, "out" after it,
                    \* "threw" if it raised, "off" when the handler runs
    sanIn,          \* the value handed to enforceEvidenceSanity
    sanOut,         \* what enforceEvidenceSanity returned
    sanAgain,       \* what enforceEvidenceSanity returned for sanOut ("again")
    lkPc,           \* single-stage handler (part_001): "off", "idle", "calling"
                    \* (awaiting fetch), "done"
    lkQuestion,     \* its question, as read from the body
    lkCall,         \* its fetch: times issued, state, reply
    lkResponse,     \* the response it returned
    wkPc,           \* worker /ask route (part_002): "off", "idle", "searching"
                    \* (awaiting the vector search), "answering" (awaiting the
                    \* answer call), "done"
    wkSearch,       \* its vector-store search fetch: times issued, state, reply
    wkEvidence,     \* what extractEvidence returned
    wkAnswer,       \* its answer fetch (generateAnswer): times issued, state, reply
    wkResponse      \* the response it returned

handlerVars == <<pc, req, extractCall, composeCall, evidenceResult, response>>
sanVars == <<sanPc, sanIn, sanOut, sanAgain>>
lockedVars == <<lkPc, lkQuestion, lkCall, lkResponse>>
workerVars == <<wkPc, wkSearch, wkEvidence, wkAnswer, wkResponse>>
otherVars == <<lockedVars, workerVars>>
vars == <<pc, req, extractCall, composeCall, evidenceResult, response, sanPc, sanIn, sanOut, sanAgain,
          lkPc, lkQuestion, lkCall, lkResponse, wkPc, wkSearch, wkEvidence, wkAnswer, wkResponse>>

----------------------------------------------------------------------------
(* Bounds of the model *)

\* longest raw evidence array handed to the sanitizer in the harness
MaxRawQuotes == 7

(* Program constants *)

\* ask.mjs:180  .filter((e) => e.quote.length >= 8)
MinQuoteLen == 8
\* ask.mjs:196  dedup.slice(0, 6)
MaxEvidence == 6
\* ask.mjs:196,199  clampStr(obj.note || "", 240)
NoteClamp == 240

----------------------------------------------------------------------------
(* JavaScript values *)

\* A scalar JSON value: t is its type, s its String() rendering.
Undef == [t |-> "undef", s |-> <<>>]
Null == [t |-> "null", s |-> <<>>]
Str(s) == [t |-> "str", s |-> s]
Num(s) == [t |-> "num", s |-> s]
ObjScalar == [t |-> "obj", s |-> <<"[object Object]">>]

Nullish(v) == v.t \in {"undef", "null"}

\* JavaScript truthiness of a scalar (used by `x || fallback`)
Truthy(v) ==
    CASE v.t \in {"undef", "null"} -> FALSE
      [] v.t = "str" -> v.s # <<>>
      [] v.t = "num" -> v.s # <<"0">>
      [] OTHER -> TRUE

\* String(v ?? "")
StringOrEmpty(v) == IF Nullish(v) THEN <<>> ELSE v.s

\* v || ""  followed by String()
OrEmpty(v) == IF Truthy(v) THEN v.s ELSE <<>>

Ellipsis == "..."

clampStr(s, max) ==
    LET t == StringOrEmpty(s)
    IN  IF Len(t) <= max THEN t ELSE SubSeq(t, 1, max) \o <<Ellipsis>>

\* characters matched by \s
WhiteSpace == {" ", "\t", "\n"}

RECURSIVE CollapsePairs(_, _, _)
\* mutant: s.replace(/\s\s/g, " "), every pair of whitespace characters
\* becomes one space
CollapsePairs(s, i, inRun) ==
    IF i > Len(s) THEN <<>>
    ELSE IF i < Len(s) /\ s[i] \in WhiteSpace /\ s[i + 1] \in WhiteSpace
         THEN <<" ">> \o CollapsePairs(s, i + 2, FALSE)
         ELSE <<s[i]>> \o CollapsePairs(s, i + 1, FALSE)

RECURSIVE CollapseSpace(_, _, _)
\* s.replace(/\s+/g, " ") from character i on: inRun tells whether the
\* previous character belonged to a whitespace run
CollapseSpace(s, i, inRun) ==
    IF i > Len(s) THEN <<>>
    ELSE IF s[i] \in WhiteSpace
         THEN (IF inRun THEN <<>> ELSE <<" ">>) \o CollapseSpace(s, i + 1, TRUE)
         ELSE <<s[i]>> \o CollapseSpace(s, i + 1, FALSE)

RECURSIVE FirstNonSpace(_, _)
\* the index of the first non-whitespace character at or after i
FirstNonSpace(s, i) ==
    IF i > Len(s) \/ s[i] \notin WhiteSpace THEN i ELSE FirstNonSpace(s, i + 1)

RECURSIVE LastNonSpace(_, _)
\* the index of the last non-whitespace character at or before i
LastNonSpace(s, i) ==
    IF i < 1 \/ s[i] \notin WhiteSpace THEN i ELSE LastNonSpace(s, i - 1)

\* String.prototype.trim
Trim(s) == SubSeq(s, FirstNonSpace(s, 1), LastNonSpace(s, Len(s)))

normalizeSpace(v) == Trim(CollapseSpace(StringOrEmpty(v), 1, FALSE))

UpperAlpha == <<"A","B","C","D","E","F","G","H","I","J","K","L","M",
                "N","O","P","Q","R","S","T","U","V","W","X","Y","Z">>
LowerAlpha == <<"a","b","c","d","e","f","g","h","i","j","k","l","m",
                "n","o","p","q","r","s","t","u","v","w","x","y","z">>

LowerChar(c) ==
    IF \E i \in DOMAIN UpperAlpha : UpperAlpha[i] = c
    THEN LowerAlpha[CHOOSE i \in DOMAIN UpperAlpha : UpperAlpha[i] = c]
    ELSE c

\* String.prototype.toLowerCase
toLowerCase(s) == [i \in DOMAIN s |-> LowerChar(s[i])]

----------------------------------------------------------------------------
(* Evidence entries and arrays *)

\* An element of an evidence/verbatim array.  nullish: the element is null
\* (property access on it throws, optional chaining yields undefined).
Entry(q, sh, ph) == [nullish |-> FALSE, quote |-> q, section_hint |-> sh, page_hint |-> ph]
NullEntry == [nullish |-> TRUE, quote |-> Undef, section_hint |-> Undef, page_hint |-> Undef]

\* e?.field
OptField(e, f) == IF e.nullish THEN Undef ELSE e[f]

\* e.field throws a TypeError when e is null or undefined; e?.field never throws
PropThrows(e) == e.nullish
OptPropThrows(e) == FALSE

\* A JSON value in an array-typed position: t = "arr" with its items, or
\* another type (s is then its String() rendering).
Arr(items) == [t |-> "arr", items |-> items, s |-> <<>>]
NotArr(v) == [t |-> v.t, items |-> <<>>, s |-> v.s]

\* Array.isArray(x) ? x : []
ArrayOrEmpty(x) == IF x.t = "arr" THEN x.items ELSE <<>>

VFound == Str(<<"FOUND">>)
VNotFound == Str(<<"NOT_FOUND">>)

\* The value handed to enforceEvidenceSanity: the parsed oracle text.
\* k = "obj" is a plain object with the three fields (absent ones Undef);
\* any other kind has no such properties.
EvidenceObj(v, ev, n) == [k |-> "obj", verdict |-> v, evidence |-> ev, note |-> n]
NonObject(k) == [k |-> k, verdict |-> Undef, evidence |-> NotArr(Undef), note |-> Undef]

\* evidenceObj || {} : null, 0, "" and false become the empty object
OrEmptyObject(x) == IF x.k \in {"null", "falsy"} THEN NonObject("obj") ELSE x

NoUsableNote == <<"No usable evidence extracted.">>

\* .map(e => ({quote: normalizeSpace(e?.quote), ...}))
CleanEntry(e) ==
    Entry(Str(normalizeSpace(OptField(e, "quote"))),
          Str(normalizeSpace(OptField(e, "section_hint"))),
          Str(normalizeSpace(OptField(e, "page_hint"))))

\* whether the map callback throws on e: it reads e?.quote, e?.section_hint
\* and e?.page_hint
CleanThrows(e) == OptPropThrows(e)

\* mutant: the filter only drops empty quotes
KeepAnyQuote(e) == Len(e.quote.s) >= 1

\* .filter(e => e.quote.length >= 8)
KeepQuote(e) == Len(e.quote.s) >= MinQuoteLen

\* Array.prototype.filter with the predicate above
FilterSeq(s) == SelectSeq(s, KeepQuote)

RECURSIVE DedupExact(_, _, _)
\* mutant: the key is the quote itself, not its lower-cased form
DedupExact(s, i, seen) ==
    IF i > Len(s) THEN <<>>
    ELSE LET key == s[i].quote.s
         IN  IF key \in seen
             THEN DedupExact(s, i + 1, seen)
             ELSE <<s[i]>> \o DedupExact(s, i + 1, seen \cup {key})

RECURSIVE Dedup(_, _, _)
\* the de-duplication loop from element i on: seen is the Set of the
\* lower-cased quotes pushed so far
Dedup(s, i, seen) ==
    IF i > Len(s) THEN <<>>
    ELSE LET key == toLowerCase(s[i].quote.s)
         IN  IF key \in seen
             THEN Dedup(s, i + 1, seen)
             ELSE <<s[i]>> \o Dedup(s, i + 1, seen \cup {key})

\* Array.prototype.slice(0, n)
SliceTo(s, n) == IF Len(s) <= n THEN s ELSE SubSeq(s, 1, n)

EvidenceSet(v, ev, n) == [verdict |-> v, evidence |-> ev, note |-> n]

\* mutant: FOUND is kept when no quote survives the filter
enforceKeepsEmptyFound(evidenceObj) ==
    LET obj == OrEmptyObject(evidenceObj)
        note == clampStr(Str(OrEmpty(obj.note)), NoteClamp)
    IN  IF obj.verdict = VFound
        THEN LET ev == ArrayOrEmpty(obj.evidence)
                 cleaned == FilterSeq([i \in DOMAIN ev |-> CleanEntry(ev[i])])
             IN  EvidenceSet(VFound, SliceTo(Dedup(cleaned, 1, {}), MaxEvidence), note)
        ELSE EvidenceSet(VNotFound, <<>>, note)

enforceEvidenceSanity(evidenceObj) ==
    LET obj == OrEmptyObject(evidenceObj)
        note == clampStr(Str(OrEmpty(obj.note)), NoteClamp)
    IN  IF obj.verdict = VFound
        THEN LET ev == ArrayOrEmpty(obj.evidence)
                 cleaned == FilterSeq([i \in DOMAIN ev |-> CleanEntry(ev[i])])
             IN  IF Len(cleaned) = 0
                 THEN EvidenceSet(VNotFound, <<>>, NoUsableNote)
                 ELSE EvidenceSet(VFound, SliceTo(Dedup(cleaned, 1, {}), MaxEvidence), note)
        ELSE EvidenceSet(VNotFound, <<>>, note)

\* whether enforceEvidenceSanity raises an exception on evidenceObj
enforceThrows(evidenceObj) ==
    LET obj == OrEmptyObject(evidenceObj)
        ev == ArrayOrEmpty(obj.evidence)
    IN  obj.verdict = VFound /\ \E i \in DOMAIN ev : CleanThrows(ev[i])

----------------------------------------------------------------------------
(* The sanitizer harness: raw oracle values in, enforceEvidenceSanity out *)

Digits == <<"1","2","3","4","5","6","7","8","9">>

\* "Max <i>g/d": exactly MinQuoteLen characters, distinct for distinct i
QuoteText(i) == <<"M","a","x"," ">> \o <<Digits[i]>> \o <<"g","/","d">>
\* the first quote again, in capitals and with stray whitespace
ShoutedFirst == <<" ","M","A","X"," ","\t","1","G","/","D","\n">>
\* nine raw characters, two after normalisation
PaddedShort == <<"o","k"," "," "," "," "," "," "," ">>
\* seven characters: one short of the minimum
SevenChars == <<"M","a","x"," ","2","g","/">>

\* the first quote with a run of four blanks inside
WideFirst == <<"M","a","x"," "," "," "," ","1","g","/","d">>

SectionText == <<" ","D","o","s","i","n","g"," "," ","A">>
PageText == <<"p",".","4">>

\* what the oracle may put at position i of its evidence array
RawEntryAt(i, c) ==
    CASE c = 1 -> Entry(Str(QuoteText(i)), Str(SectionText), Str(PageText))
      [] c = 2 -> Entry(Str(ShoutedFirst), Str(<<>>), Undef)
      [] c = 3 -> Entry(Str(PaddedShort), Str(SectionText), Str(<<>>))
      [] OTHER -> NullEntry

\* entries that break the schema: fields missing, or of another type
OddEntries ==
    { Entry(Undef, Undef, Undef),
      Entry(Num(<<"1","2","3","4","5","6","7","8">>), Null, Num(<<"4">>)),
      Entry(ObjScalar, Str(SectionText), Str(PageText)),
      Entry(Str(SevenChars), Str(<<>>), Str(<<>>)),
      Entry(Str(QuoteText(1)), Undef, Str(PageText)),
      Entry(Str(WideFirst), Str(SectionText), Str(<<>>)),
      NullEntry }

OddArrays ==
    { <<e>> : e \in OddEntries } \cup { <<e1, e2>> : e1 \in OddEntries, e2 \in OddEntries }

ShortNote == <<"s","e","e"," ","p",".","4">>

\* notes of exactly the clamp's length, and longer
FullNote == [i \in 1..NoteClamp |-> "n"]
LongNote == [i \in 1..(NoteClamp + 5) |-> IF i <= NoteClamp THEN "n" ELSE "x"]

RawNotes ==
    { Undef, Null, Str(<<>>), Str(ShortNote), Num(<<"0">>), Num(<<"7">>), ObjScalar,
      Str(FullNote), Str(FullNote \o <<"x">>), Str(LongNote) }

RawVerdicts == { VFound, VNotFound, Str(<<"MAYBE">>), Str(<<"found">>), Undef, Null }

NonArrays == { NotArr(Undef), NotArr(Null), NotArr(Str(QuoteText(1))), NotArr(Num(<<"3">>)), NotArr(ObjScalar) }

NonObjects == { NonObject("null"), NonObject("falsy"), NonObject("num"), NonObject("str"), NonObject("arr") }

SanSmall ==
    NonObjects
    \cup { EvidenceObj(v, Arr(a), n) : v \in RawVerdicts, a \in OddArrays, n \in {Undef, Str(ShortNote)} }
    \cup { EvidenceObj(v, e, n) : v \in RawVerdicts, e \in NonArrays, n \in RawNotes }
    \cup { EvidenceObj(VFound, Arr(<<RawEntryAt(1, 1), RawEntryAt(2, 2)>>), n) : n \in RawNotes }

NoEvidenceSet == EvidenceSet(Undef, <<>>, <<>>)

----------------------------------------------------------------------------
(* The handler's fixed texts *)

NotFoundAr == <<"[ar] Not found in this drug's protocol/PDF.">>
NotFoundEn == <<"Not found in this drug protocol/PDF.">>
ReviewAr == <<"[ar] Review the protocol/updated version or upload a newer one.">>
ReviewEn == <<"Please review the protocol source or upload a newer version.">>
ComposerFailedAr == <<"[ar] Answer composition failed; NOT_FOUND returned for safety.">>
ComposerFailedEn == <<"Answer composer failed; returned NOT_FOUND for safety.">>
UnsupportedDrug == <<"[ar] This drug is not in the system's list (no PDF/VectorStore linked).">>
SourceNotFoundAr == <<"[ar] Source not found in protocol.">>
SourceNotFoundEn == <<"Source not found in protocol.">>
ExtractionFailedTag == <<"evidence_extraction_failed">>

LangEn == <<"e","n">>
LangAr == <<"a","r">>
LangAuto == <<"a","u","t","o">>
ModeHybrid == <<"h","y","b","r","i","d">>
ModeVerbatim == <<"v","e","r","b","a","t","i","m">>
ModeShort == <<"s","h","o","r","t">>
ModeLink == <<"l","i","n","k">>

\* the answer object: what the composer returns and what minimalNotFound builds
AnswerObj(v, sa, vb, sh, w) ==
    [k |-> "obj", verdict |-> v, short_answer |-> sa, verbatim |-> vb,
     source_hint |-> sh, warnings |-> w]
\* a parsed composer text that is not a plain object
NonAnswer(k) ==
    [k |-> k, verdict |-> Undef, short_answer |-> Undef, verbatim |-> NotArr(Undef),
     source_hint |-> Undef, warnings |-> NotArr(Undef)]

minimalNotFound(lang) ==
    IF lang = LangEn
    THEN AnswerObj(VNotFound, Str(NotFoundEn), Arr(<<>>), Str(<<>>), Arr(<<Str(ReviewEn)>>))
    ELSE AnswerObj(VNotFound, Str(NotFoundAr), Arr(<<>>), Str(<<>>), Arr(<<Str(ReviewAr)>>))

\* characters in the range U+0600..U+06FF
ArabicLetters == {"[ar]"}

\* String(langSetting || "auto").toLowerCase(), then the script test
inferLangFromUserSetting(langSetting, question) ==
    LET l == toLowerCase(IF langSetting = <<>> THEN LangAuto ELSE langSetting)
    IN  IF l # LangAuto THEN l
        ELSE IF \E i \in DOMAIN question : question[i] \in ArabicLetters
             THEN LangAr ELSE LangEn

\* String(v || dflt).trim().toLowerCase()
NormField(v, dflt) == toLowerCase(Trim(IF Truthy(v) THEN v.s ELSE dflt))

----------------------------------------------------------------------------
(* The oracle's replies *)

\* A text the oracle returned. k = "json": the text parses, v is its value;
\* "garbage": it does not parse; "blank": only whitespace; "absent": the
\* field is missing or not a string.
JsonText(v) == [k |-> "json", v |-> v]
OtherText(k) == [k |-> k, v |-> NonObject("null")]

\* What fetch settled with. fetched = FALSE: fetch itself rejected;
\* ok: r.ok; the body's output_text and the text of its output[] messages.
Reply(fetched, ok, ot, out) == [fetched |-> fetched, ok |-> ok, output_text |-> ot, output |-> out]
NoReply == Reply(FALSE, FALSE, OtherText("absent"), OtherText("absent"))

\* mutant: the status check is missing
callOpenAIIgnoresStatus(r) == ~r.fetched

\* callOpenAI throws when fetch rejects or the status is not 2xx
callOpenAIThrows(r) == ~r.fetched \/ ~r.ok

extractOutputText(resp) ==
    IF resp.output_text.k \notin {"absent", "blank"} THEN resp.output_text
    ELSE IF resp.output.k = "absent" THEN OtherText("blank")
    ELSE resp.output

\* JSON.parse in a try/catch: null when the text does not parse
safeJsonParse(txt) == IF txt.k = "json" THEN txt.v ELSE NonObject("null")

Call(n, state, reply) == [n |-> n, state |-> state, reply |-> reply]
NoCall == Call(0, "none", NoReply)

----------------------------------------------------------------------------
(* Verification of the composed answer and rendering *)

\* mutant: FOUND is not checked for verbatim evidence
VerifyAnswerUnchecked(parsed2, lang) ==
    IF parsed2.k \notin {"obj", "arr"} THEN minimalNotFound(lang) ELSE parsed2

\* lines 402-410: the parsed composer value becomes finalObj
VerifyAnswer(parsed2, lang) ==
    IF parsed2.k \notin {"obj", "arr"}
    THEN minimalNotFound(lang)
    ELSE LET verbatim == ArrayOrEmpty(parsed2.verbatim)
         IN  IF parsed2.verdict = VFound /\ Len(verbatim) = 0
             THEN minimalNotFound(lang)
             ELSE parsed2

\* lines 411-416: the composer call threw
ComposeFailedAnswer(lang) ==
    LET nf == minimalNotFound(lang)
    IN  [nf EXCEPT !.warnings =
            Arr(ArrayOrEmpty(@) \o <<Str(IF lang = LangEn THEN ComposerFailedEn ELSE ComposerFailedAr)>>)]

\* x.length is a truthy number: a non-empty array or a non-empty string
HasLength(x) ==
    \/ x.t = "arr" /\ Len(x.items) > 0
    \/ x.t = "str" /\ Len(x.s) > 0

\* v || ""
OrEmptyStr(v) == IF Truthy(v) THEN v ELSE Str(<<>>)

\* mutant: mode short hides the quotes in the result as well
BuildResultHidesQuotes(finalObj, evidence, mode) ==
    [verdict |-> finalObj.verdict,
     short_answer |-> IF mode = ModeVerbatim THEN Str(<<>>) ELSE OrEmptyStr(finalObj.short_answer),
     verbatim |-> IF mode = ModeShort THEN Arr(<<>>)
                  ELSE IF HasLength(finalObj.verbatim) THEN finalObj.verbatim ELSE Arr(evidence),
     source_hint |-> OrEmptyStr(finalObj.source_hint),
     warnings |-> IF finalObj.warnings.t = "arr" THEN finalObj.warnings ELSE Arr(<<>>)]

\* lines 421-432: the result object, with the short answer hidden in mode verbatim
BuildResult(finalObj, evidence, mode) ==
    [verdict |-> finalObj.verdict,
     short_answer |-> IF mode = ModeVerbatim THEN Str(<<>>) ELSE OrEmptyStr(finalObj.short_answer),
     verbatim |-> IF HasLength(finalObj.verbatim) THEN finalObj.verbatim ELSE Arr(evidence),
     source_hint |-> OrEmptyStr(finalObj.source_hint),
     warnings |-> IF finalObj.warnings.t = "arr" THEN finalObj.warnings ELSE Arr(<<>>)]

NoResult ==
    [verdict |-> Undef, short_answer |-> Undef, verbatim |-> NotArr(Undef),
     source_hint |-> Undef, warnings |-> NotArr(Undef)]

\* the answer object as a result (the early returns pass minimalNotFound itself)
AsResult(a) ==
    [verdict |-> a.verdict, short_answer |-> a.short_answer, verbatim |-> a.verbatim,
     source_hint |-> a.source_hint, warnings |-> a.warnings]

\* `${v}` in a template literal
Template(v) ==
    CASE v.t = "undef" -> <<"undefined">>
      [] v.t = "null" -> <<"null">>
      [] OTHER -> v.s

\* mutant: the section hint is printed without its brackets
RenderQuoteNoBrackets(e, i) ==
    <<Digits[i], ")", " ">> \o Template(e.quote)
    \o (IF Truthy(e.section_hint)
        THEN <<"\n", " ", " ", " ">> \o Template(e.section_hint)
        ELSE <<>>)
    \o (IF Truthy(e.page_hint) THEN <<" ">> \o Template(e.page_hint) ELSE <<>>)

\* one line of the verbatim reply: `${i + 1}) ${e.quote}...`
RenderQuote(e, i) ==
    <<Digits[i], ")", " ">> \o Template(e.quote)
    \o (IF Truthy(e.section_hint)
        THEN <<"\n", " ", " ", " ", "[">> \o Template(e.section_hint) \o <<"]">>
        ELSE <<>>)
    \o (IF Truthy(e.page_hint) THEN <<" ">> \o Template(e.page_hint) ELSE <<>>)

RECURSIVE JoinQuotes(_, _)
\* .map(...).join("\n\n") over items i..Len(items)
JoinQuotes(items, i) ==
    IF i > Len(items) THEN <<>>
    ELSE RenderQuote(items[i], i)
         \o (IF i < Len(items) THEN <<"\n", "\n">> ELSE <<>>)
         \o JoinQuotes(items, i + 1)

\* mutant: the last quote is shown instead of the first
LastQuote(verbatim) ==
    IF verbatim.t = "arr" /\ Len(verbatim.items) > 0
    THEN OrEmpty(OptField(verbatim.items[Len(verbatim.items)], "quote"))
    ELSE <<>>

\* result.verbatim[0]?.quote || ""
FirstQuote(verbatim) ==
    IF verbatim.t = "arr" /\ Len(verbatim.items) > 0
    THEN OrEmpty(OptField(verbatim.items[1], "quote"))
    ELSE <<>>

\* lines 436-452: whether building the reply throws.  In mode verbatim a
\* verbatim with a length is mapped: a string has no map, and the callback
\* reads e.quote of every element.
RenderThrows(result, mode) ==
    /\ mode = ModeVerbatim
    /\ HasLength(result.verbatim)
    /\ \/ result.verbatim.t # "arr"
       \/ \E i \in DOMAIN result.verbatim.items : PropThrows(result.verbatim.items[i])

\* mutant: the short/hybrid branch shows any non-empty short answer,
\* whatever the verdict
RenderReplyAnyVerdict(result, mode, lang) ==
    IF mode = ModeVerbatim
    THEN IF HasLength(result.verbatim)
         THEN JoinQuotes(result.verbatim.items, 1)
         ELSE minimalNotFound(lang).short_answer.s
    ELSE IF mode = ModeLink
    THEN IF Truthy(result.source_hint)
         THEN (IF lang = LangEn THEN <<"Source: ">> ELSE <<"[ar] Source: ">>)
              \o Template(result.source_hint)
              \o (IF lang = LangEn THEN <<"\n\nEvidence:\n">> ELSE <<"\n\n[ar] Evidence:\n">>)
              \o FirstQuote(result.verbatim)
         ELSE (IF lang = LangEn THEN SourceNotFoundEn ELSE SourceNotFoundAr)
    ELSE IF Truthy(result.short_answer)
         THEN Template(result.short_answer)
         ELSE minimalNotFound(lang).short_answer.s

\* lines 436-452: the reply text
RenderReply(result, mode, lang) ==
    IF mode = ModeVerbatim
    THEN IF HasLength(result.verbatim)
         THEN JoinQuotes(result.verbatim.items, 1)
         ELSE minimalNotFound(lang).short_answer.s
    ELSE IF mode = ModeLink
    THEN IF Truthy(result.source_hint)
         THEN (IF lang = LangEn THEN <<"Source: ">> ELSE <<"[ar] Source: ">>)
              \o Template(result.source_hint)
              \o (IF lang = LangEn THEN <<"\n\nEvidence:\n">> ELSE <<"\n\n[ar] Evidence:\n">>)
              \o FirstQuote(result.verbatim)
         ELSE (IF lang = LangEn THEN SourceNotFoundEn ELSE SourceNotFoundAr)
    ELSE IF result.verdict = VFound /\ Truthy(result.short_answer)
         THEN Template(result.short_answer)
         ELSE minimalNotFound(lang).short_answer.s

----------------------------------------------------------------------------
(* Requests *)

KeyHep == <<"h","e","p">>
KeyWar == <<"w","a","r">>
KeyIns == <<"i","n","s">>

\* refs.manifest.json: a drug with a store, one whose vector_store_id is the
\* empty string, one whose entry has no vector_store_id
RefsManifest ==
    [d \in {KeyHep, KeyWar, KeyIns} |->
        IF d = KeyHep THEN [vector_store_id |-> Str(<<"vs_hep">>)]
        ELSE IF d = KeyWar THEN [vector_store_id |-> Str(<<>>)]
        ELSE [vector_store_id |-> Undef]]

\* mutant: the entry itself is taken for the store identifier
VectorStoreIdIsEntry(drugKey) ==
    IF drugKey \in DOMAIN RefsManifest THEN ObjScalar ELSE Undef

\* refs?.[drugKey]?.vector_store_id
VectorStoreId(drugKey) ==
    IF drugKey \in DOMAIN RefsManifest THEN RefsManifest[drugKey].vector_store_id ELSE Undef

EnQuestion == <<"m","a","x"," ","d","o","s","e","?">>
ArQuestion == <<"[ar]","[ar]"," ","?">>

Payload(d, q, l, m) == [drugKey |-> d, question |-> q, lang |-> l, mode |-> m]
Event(method, parses, payload) == [httpMethod |-> method, bodyParses |-> parses, payload |-> payload]
Env(key, refs) == [hasApiKey |-> key, refsReadable |-> refs]

PayloadDrugKeys ==
    { Undef, Str(<<" ","H","e","p"," ">>), Str(KeyWar), Str(KeyIns), Str(<<"a","m","o">>) }
PayloadModes ==
    { Undef, Str(<<"V","e","r","b","a","t","i","m">>), Str(<<" ","s","h","o","r","t">>),
      Str(ModeLink), Str(ModeHybrid), Str(<<"t","a","b","l","e">>) }
\* (lang, question) pairs: auto-detected English and Arabic, explicit en, another language
PayloadLangs ==
    { <<Undef, EnQuestion>>, <<Str(LangAuto), ArQuestion>>, <<Str(<<"E","N">>), ArQuestion>>,
      <<Str(<<"h","i">>), EnQuestion>> }

Events ==
    { Event(m, b, Payload(Str(KeyHep), Str(EnQuestion), Undef, Undef)) :
        m \in {"OPTIONS", "GET", "POST"}, b \in BOOLEAN }
    \cup { Event("POST", TRUE, Payload(d, q, Undef, Undef)) :
            d \in PayloadDrugKeys, q \in {Undef, Str(<<" ">>), Str(EnQuestion)} }
    \cup { Event("POST", TRUE, Payload(Str(KeyHep), Str(lq[2]), lq[1], m)) :
            lq \in PayloadLangs, m \in PayloadModes }

Envs == { Env(TRUE, TRUE), Env(FALSE, TRUE), Env(TRUE, FALSE) }

Request(d, q, l, m) == [drugKey |-> d, question |-> q, lang |-> l, mode |-> m]
NoRequest == Request(<<>>, <<>>, <<>>, <<>>)

\* json(body, statusCode): the fields of the body the handler sets
HttpResponse(status, error, reply, hasResult, result, guardrail, note) ==
    [sent |-> TRUE, statusCode |-> status, error |-> error, reply |-> reply,
     hasResult |-> hasResult, result |-> result, error_guardrail |-> guardrail,
     evidence_note |-> note]
NoResponse ==
    [sent |-> FALSE, statusCode |-> 0, error |-> <<>>, reply |-> <<>>,
     hasResult |-> FALSE, result |-> NoResult, error_guardrail |-> <<>>,
     evidence_note |-> <<>>]
ErrorResponse(status, error) == HttpResponse(status, error, <<>>, FALSE, NoResult, <<>>, <<>>)

\* the canned not-found response of lines 327-338 and 342-352
NotFoundResponse(lang, guardrail, note) ==
    LET nf == minimalNotFound(lang)
    IN  HttpResponse(200, <<>>, nf.short_answer.s, TRUE, AsResult(nf), guardrail, note)

----------------------------------------------------------------------------
(* What the oracle may answer *)

\* longest evidence array the oracle returns to the handler
MaxOracleQuotes == 2

OracleEntries == { RawEntryAt(1, 1), RawEntryAt(2, 1), RawEntryAt(1, 2), RawEntryAt(1, 3), NullEntry }

OracleArrays == UNION { [1..n -> OracleEntries] : n \in 0..MaxOracleQuotes }

ExtractValues ==
    NonObjects
    \cup { EvidenceObj(v, Arr(a), Str(ShortNote)) :
            v \in {VFound, VNotFound, Str(<<"MAYBE">>)}, a \in OracleArrays }
    \cup { EvidenceObj(VFound, e, Undef) : e \in NonArrays }

\* replies whose text does not parse
BrokenReplies ==
    { Reply(TRUE, TRUE, OtherText("garbage"), OtherText("absent")),
      Reply(TRUE, TRUE, OtherText("absent"), OtherText("absent")),
      Reply(TRUE, TRUE, OtherText("blank"), OtherText("garbage")),
      Reply(TRUE, TRUE, OtherText("blank"), OtherText("blank")) }
\* fetch rejected; the API answered with an error status
FailedReplies ==
    { Reply(FALSE, FALSE, OtherText("absent"), OtherText("absent")),
      Reply(TRUE, FALSE, OtherText("absent"), OtherText("absent")),
      Reply(TRUE, FALSE, OtherText("garbage"), OtherText("absent")) }

ExtractReplies ==
    { Reply(TRUE, TRUE, JsonText(v), OtherText("absent")) : v \in ExtractValues }
    \cup { Reply(TRUE, TRUE, OtherText("blank"), JsonText(v)) : v \in NonObjects }
    \cup { Reply(TRUE, FALSE, JsonText(EvidenceObj(VFound, Arr(<<RawEntryAt(1, 1)>>), Str(ShortNote))),
                 OtherText("absent")) }
    \cup BrokenReplies \cup FailedReplies

AnswerText == <<"Max 1 g per day.">>
HintText == <<"Dosing A, p.4">>
\* a quote the extractor never returned
FabricatedEntry == Entry(Str(QuoteText(9)), Str(<<>>), Str(<<>>))
\* one quote more than the schema's maxItems
LongVerbatim == [i \in 1..(MaxEvidence + 1) |-> Entry(Str(QuoteText(i)), Str(<<>>), Str(PageText))]

ComposeVerdicts == { VFound, VNotFound, Str(<<"MAYBE">>), Undef }

ComposeVerbatims(ev) ==
    { Arr(<<>>), Arr(ev), Arr(SliceTo(ev, 1)), Arr(<<FabricatedEntry>>), Arr(<<FabricatedEntry>> \o SliceTo(ev, 1)),
      Arr(<<NullEntry>>), Arr(<<Entry(Undef, Undef, Undef)>>), Arr(LongVerbatim),
      NotArr(Undef), NotArr(Str(QuoteText(1))), NotArr(Num(<<"3">>)) }

ComposeWarnings ==
    { Arr(<<>>), Arr(<<Str(<<"check renal dose">>)>>), Arr(<<Num(<<"7">>)>>), NotArr(Str(<<"none">>)) }

\* the values the composer's text may parse to, given the evidence it was shown
ComposeValues(ev) ==
    { NonAnswer("null"), NonAnswer("falsy"), NonAnswer("num"), NonAnswer("str"), NonAnswer("arr") }
    \cup { AnswerObj(v, Str(AnswerText), vb, Str(HintText), Arr(<<>>)) :
            v \in ComposeVerdicts, vb \in ComposeVerbatims(ev) }
    \cup { AnswerObj(v, sa, vb, sh, w) :
            v \in {VFound, VNotFound}, sa \in {Str(<<>>), Undef, Num(<<"5">>)},
            vb \in {Arr(<<>>), Arr(ev)}, sh \in {Str(<<>>), Undef}, w \in ComposeWarnings }

ComposeReplies(ev) ==
    { Reply(TRUE, TRUE, JsonText(v), OtherText("absent")) : v \in ComposeValues(ev) }
    \cup { Reply(TRUE, TRUE, OtherText("absent"), JsonText(AnswerObj(VFound, Str(AnswerText), Arr(ev), Str(HintText), Arr(<<>>)))),
           Reply(TRUE, FALSE, JsonText(AnswerObj(VFound, Str(AnswerText), Arr(ev), Str(HintText), Arr(<<>>))), OtherText("absent")) }
    \cup BrokenReplies \cup FailedReplies

\* enforceEvidenceSanity and its exceptions on every value the first call's
\* text can parse to, tabulated once
SanityOf ==
    [v \in ExtractValues |->
        [threw |-> enforceThrows(v), value |-> enforceEvidenceSanity(v)]]

----------------------------------------------------------------------------
(* The single-stage protocol-locked handler (part_001) *)

NotFoundInProtocol == <<"Not found in protocol">>

\* callOpenAIResponses: what fetch settled with.  fetched = FALSE: fetch
\* rejected; parses: the body is JSON; ok: r.ok; output_text is a scalar
\* value, output an array of the content texts or no array
LockedReply(fetched, parses, ok, ot, out) ==
    [fetched |-> fetched, parses |-> parses, ok |-> ok, output_text |-> ot, output |-> out]
NoLockedReply == LockedReply(FALSE, FALSE, FALSE, Undef, NotArr(Undef))
NoLockedCall == Call(0, "none", NoLockedReply)

\* lines 51-73: fetch rejects, the body is not JSON, or the status is an error
callOpenAIResponsesThrows(r) == ~r.fetched \/ ~r.parses \/ ~r.ok

RECURSIVE JoinContent(_, _, _)
\* lines 81-89: out += (out ? "\n" : "") + c.text, for the texts from i on
JoinContent(pieces, i, out) ==
    IF i > Len(pieces) THEN out
    ELSE JoinContent(pieces, i + 1,
                     out \o (IF out # <<>> THEN <<"\n">> ELSE <<>>) \o pieces[i])

\* lines 75-94: the text callOpenAIResponses returns
callOpenAIResponses(r) ==
    LET out == IF r.output_text.t = "str" THEN r.output_text.s ELSE <<>>
    IN  Trim(IF out = <<>> /\ r.output.t = "arr"
             THEN JoinContent(r.output.items, 1, <<>>)
             ELSE out)

\* json(body, statusCode) of part_001: the fields the handler sets
LockedResponse(status, ok, hasVerdict, verdict, answer, error) ==
    [sent |-> TRUE, statusCode |-> status, ok |-> ok, hasVerdict |-> hasVerdict,
     verdict |-> verdict, answer |-> answer, error |-> error]
NoLockedResponse ==
    [sent |-> FALSE, statusCode |-> 0, ok |-> FALSE, hasVerdict |-> FALSE,
     verdict |-> <<>>, answer |-> <<>>, error |-> <<>>]
LockedError(status, error) == LockedResponse(status, FALSE, FALSE, <<>>, <<>>, error)

\* lines 130-139: the response built from the oracle's text
LockedAnswer(text) ==
    LET notFound == text = NotFoundInProtocol
    IN  LockedResponse(200, TRUE, TRUE,
                       IF notFound THEN <<"NOT_FOUND">> ELSE <<"FOUND">>,
                       IF text # <<>> THEN text ELSE NotFoundInProtocol, <<>>)

\* texts the oracle may write
LockedAnswerText == <<"Max 1 g per day.", "\n", "Evidence:", " ", "\"Max 1g/d\"">>
LockedTexts ==
    { <<>>, <<" ", "\n">>, NotFoundInProtocol,
      <<" ">> \o NotFoundInProtocol \o <<"\n">>,
      NotFoundInProtocol \o <<".">>, <<"not found in protocol">>,
      LockedAnswerText, LockedAnswerText \o <<"\n">> \o NotFoundInProtocol }

LockedOutputs ==
    { NotArr(Undef), Arr(<<>>), Arr(<<NotFoundInProtocol>>), Arr(<<<<>>, NotFoundInProtocol>>),
      Arr(<<LockedAnswerText, NotFoundInProtocol>>), Arr(<<<< >>, <<" ">>>>) }

LockedReplies ==
    { LockedReply(TRUE, TRUE, TRUE, ot, out) :
        ot \in { Undef, Num(<<"7">>) } \cup { Str(t) : t \in LockedTexts }, out \in LockedOutputs }
    \cup { LockedReply(FALSE, FALSE, FALSE, Undef, NotArr(Undef)),
           LockedReply(TRUE, FALSE, TRUE, Undef, NotArr(Undef)),
           LockedReply(TRUE, FALSE, FALSE, Undef, NotArr(Undef)),
           LockedReply(TRUE, TRUE, FALSE, Str(LockedAnswerText), NotArr(Undef)) }

\* the request and the environment of part_001
LockedRequest(method, parses, question, q) ==
    [method |-> method, bodyParses |-> parses, question |-> question, q |-> q]
LockedEnv(key, store) == [hasApiKey |-> key, hasVectorStore |-> store]

LockedRequests ==
    { LockedRequest(m, b, Str(EnQuestion), Undef) : m \in {"OPTIONS", "GET", "POST"}, b \in BOOLEAN }
    \cup { LockedRequest("POST", TRUE, question, q) :
            question \in { Undef, Str(<<" ">>), Num(<<"5">>), Str(EnQuestion) },
            q \in { Undef, Str(<<>>), Str(<<" ">> \o ArQuestion) } }
LockedEnvs == { LockedEnv(TRUE, TRUE), LockedEnv(FALSE, TRUE), LockedEnv(TRUE, FALSE) }

\* typeof v === "string" && v.trim()
TrimmedString(v) == IF v.t = "str" THEN Trim(v.s) ELSE <<>>

----------------------------------------------------------------------------
(* The worker's /ask route (part_002) *)

\* longest list of search results the vector store returns
MaxSearchItems == 9

\* part_002:100  safeTrim(s, n = 2400)
DefaultTrim == 2400
\* part_002:230  safeTrim(text, 900)
ExcerptTrim == 900
\* part_002:234  if (evidence.length >= 8) break
MaxEvidenceItems == 8

\* a || b || c || d: the first truthy operand, else the last one
FirstTruthy(a, b, c, d) ==
    IF Truthy(a) THEN a ELSE IF Truthy(b) THEN b ELSE IF Truthy(c) THEN c ELSE d

\* String(s || ""), cut to n characters plus an ellipsis
safeTrim(v, n) ==
    LET t == OrEmpty(v)
    IN  IF Len(t) > n THEN SubSeq(t, 1, n) \o <<Ellipsis>> ELSE t

\* an array as a scalar value: truthy, s is its String() rendering
ArrScalar(s) == [t |-> "arr", s |-> s]

\* one search result; nullish: the element is null
SearchItem(content, text, chunk, file_id, filename, page, score) ==
    [nullish |-> FALSE, content |-> content, text |-> text, chunk |-> chunk,
     file_id |-> file_id, filename |-> filename, page |-> page, score |-> score]
NullItem ==
    [nullish |-> TRUE, content |-> Undef, text |-> Undef, chunk |-> Undef,
     file_id |-> Undef, filename |-> Undef, page |-> Undef, score |-> Undef]

EvidenceItem(id, file_id, filename, page, score, excerpt) ==
    [id |-> id, file_id |-> file_id, filename |-> filename, page |-> page,
     score |-> score, excerpt |-> excerpt]

\* mutant: every search result is kept
HasTextAlways(text) == TRUE

\* line 223: safeTrim(text).trim() is truthy, i.e. some character of the
\* trimmed text is not whitespace
HasText(text) ==
    LET t == safeTrim(text, DefaultTrim)
    IN  \E i \in DOMAIN t : t[i] \notin WhiteSpace

\* lines 205-211: it?.content || it?.text || it?.chunk || ... || "" (the
\* probes of nested objects are left out; the array branch of line 210 is
\* dead, since an array is truthy and taken by the first operand)
TextOf(it) ==
    FirstTruthy(OptField(it, "content"), OptField(it, "text"), OptField(it, "chunk"), Str(<<>>))

\* lines 191-231: the evidence item made of search result it, as number k
EvidenceOf(it, k) ==
    LET fileId == IF Truthy(OptField(it, "file_id")) THEN OptField(it, "file_id") ELSE Null
        fileName == IF Truthy(OptField(it, "filename")) THEN OptField(it, "filename") ELSE Null
        text == TextOf(it)
        page == IF Truthy(OptField(it, "page")) THEN OptField(it, "page") ELSE Null
        score == IF OptField(it, "score").t = "num" THEN OptField(it, "score") ELSE Null
    IN  EvidenceItem(<<"E", Digits[k]>>, fileId,
                     IF Truthy(fileName) THEN fileName.s
                     ELSE IF Truthy(fileId) THEN <<"file:">> \o fileId.s
                     ELSE <<"unknown_file">>,
                     page, score, safeTrim(text, ExcerptTrim))

RECURSIVE ExtractLoop(_, _, _)
\* lines 188-235: the loop over the search results from number i on
ExtractLoop(searchItems, i, evidence) ==
    IF i > Len(searchItems) THEN evidence
    ELSE LET it == searchItems[i]
             pushed == IF HasText(TextOf(it))
                       THEN Append(evidence, EvidenceOf(it, Len(evidence) + 1))
                       ELSE evidence
         IN  IF Len(pushed) >= MaxEvidenceItems THEN pushed
             ELSE ExtractLoop(searchItems, i + 1, pushed)

extractEvidence(searchItems) == ExtractLoop(searchItems, 1, <<>>)

\* search results: a chunk of protocol text, and one whose text is blank
DoseText == <<"G","i","v","e"," ","5","0","0","m","g"," ","q","8","h">>
TextItem ==
    SearchItem(Undef, Str(DoseText), Undef, Str(<<"file-1">>), Str(<<"hep.pdf">>), Num(<<"4">>), Num(<<"0.9">>))
BlankItem ==
    SearchItem(Str(<<>>), Str(<<" ", "\n", " ">>), Undef, Str(<<"file-1">>), Undef, Undef, Undef)
\* a text whose first 900 characters are blank
PaddedText == [i \in 1..(ExcerptTrim + 2) |-> IF i <= ExcerptTrim THEN " " ELSE "x"]

OddItems ==
    { NullItem,
      SearchItem(ArrScalar(<<"[object Object]">>), Str(DoseText), Undef, Undef, Undef, Undef, Undef),
      SearchItem(ArrScalar(<<>>), Str(DoseText), Undef, Undef, Undef, Undef, Undef),
      SearchItem(Num(<<"0">>), Undef, Str(DoseText), Undef, Str(<<"hep.pdf">>), Undef, Str(<<"0.9">>)),
      SearchItem(Num(<<"7">>), Undef, Undef, Undef, Undef, Undef, Undef),
      SearchItem(Undef, Undef, Str(PaddedText), Undef, Undef, Undef, Undef),
      SearchItem(Undef, Undef, Undef, Undef, Str(<<"hep.pdf">>), Num(<<"4">>), Undef) }

SearchArrays ==
    UNION { [1..n -> {TextItem, BlankItem}] : n \in 0..MaxSearchItems }
    \cup { <<e>> : e \in OddItems }
    \cup { <<BlankItem, e, TextItem>> : e \in OddItems }

\* what the search fetch settled with: fetched = FALSE: fetch rejected;
\* ok: res.ok; data: the body's data field
SearchReply(fetched, ok, data) == [fetched |-> fetched, ok |-> ok, data |-> data]
NoSearchReply == SearchReply(FALSE, FALSE, NotArr(Undef))

SearchReplies ==
    { SearchReply(TRUE, TRUE, Arr(a)) : a \in SearchArrays }
    \cup { SearchReply(TRUE, TRUE, NotArr(Undef)), SearchReply(TRUE, TRUE, NotArr(Str(DoseText))),
           SearchReply(TRUE, FALSE, Arr(<<TextItem>>)), SearchReply(FALSE, FALSE, NotArr(Undef)) }

\* the JSON value the answer model wrote: k = "obj" is an object with the
\* fields below (ok is a field outside the schema), any other kind has none
WorkerResult(k, ok, verdict, citations) ==
    [k |-> k, ok |-> ok, verdict |-> verdict, citations |-> citations]
NonResult(k) == WorkerResult(k, Undef, Undef, NotArr(Undef))

VOk == Str(<<"OK">>)
Citation == [evidence_ids |-> <<"E1">>, filename |-> <<"hep.pdf">>, excerpt |-> DoseText]
NoCitation == [evidence_ids |-> <<>>, filename |-> <<>>, excerpt |-> <<>>]

\* line 322: the fallback when the model's text is not JSON
ParserError == WorkerResult("obj", Undef, VNotFound, Arr(<<>>))

WorkerResults ==
    { NonResult(k) : k \in {"null", "falsy", "num", "str", "arr"} }
    \cup { WorkerResult("obj", ok, v, c) :
            ok \in { Undef, [t |-> "bool", s |-> <<"false">>] },
            v \in { VOk, VNotFound, VFound, Undef },
            c \in { Arr(<<>>), Arr(<<Citation>>), Arr(<<Citation, Citation>>), Arr(<<NoCitation>>),
                    NotArr(Undef), NotArr(Null), NotArr(Str(<<"E1">>)), NotArr(ObjScalar) } }

\* a text of the answer reply: k = "json" parses to v, "garbage" does not
\* parse, "empty" is a missing or empty text
WorkerText(k, v) == [k |-> k, v |-> v]

\* what the answer fetch settled with
AnswerReply(fetched, ok, ot, out) == [fetched |-> fetched, ok |-> ok, output_text |-> ot, output |-> out]
NoAnswerReply == AnswerReply(FALSE, FALSE, WorkerText("empty", NonResult("null")), WorkerText("empty", NonResult("null")))

AnswerReplies ==
    { AnswerReply(TRUE, TRUE, WorkerText("json", v), WorkerText("empty", NonResult("null"))) : v \in WorkerResults }
    \cup { AnswerReply(TRUE, TRUE, WorkerText("empty", NonResult("null")), t) :
            t \in { WorkerText("empty", NonResult("null")), WorkerText("garbage", NonResult("null")),
                    WorkerText("json", WorkerResult("obj", Undef, VOk, Arr(<<Citation>>))) } }
    \cup { AnswerReply(TRUE, TRUE, WorkerText("garbage", NonResult("null")), WorkerText("empty", NonResult("null"))),
           AnswerReply(TRUE, FALSE, WorkerText("json", WorkerResult("obj", Undef, VOk, Arr(<<Citation>>))),
                       WorkerText("empty", NonResult("null"))),
           AnswerReply(FALSE, FALSE, WorkerText("empty", NonResult("null")), WorkerText("empty", NonResult("null"))) }

\* lines 309-325: the result generateAnswer returns for a reply with res.ok
generateAnswer(r) ==
    LET outText == IF r.output_text.k # "empty" THEN r.output_text ELSE r.output
    IN  IF outText.k = "json" THEN outText.v ELSE ParserError

\* line 404: ans.result || {}
OrEmptyResult(x) == IF x.k \in {"null", "falsy"} THEN NonResult("obj") ELSE x

\* the responses of the worker: the fields the /ask route sets
WorkerResponse(status, ok, verdict, citations, error) ==
    [sent |-> TRUE, status |-> status, ok |-> ok, verdict |-> verdict,
     citations |-> citations, error |-> error]
NoWorkerResponse ==
    [sent |-> FALSE, status |-> 0, ok |-> FALSE, verdict |-> Undef,
     citations |-> NotArr(Undef), error |-> <<>>]
WorkerError(status, error) == WorkerResponse(status, FALSE, Undef, NotArr(Undef), error)
\* lines 382-387 and 408-413
WorkerNotFound == WorkerResponse(200, TRUE, VNotFound, Arr(<<>>), <<>>)

\* the request and the environment of the worker
WorkerRequest(method, path, body, question, q) ==
    [method |-> method, path |-> path, body |-> body, question |-> question, q |-> q]
WorkerEnv(key, store) == [hasApiKey |-> key, hasVectorStore |-> store]

WorkerRequests ==
    { WorkerRequest(m, p, "obj", Str(EnQuestion), Undef) :
        m \in {"OPTIONS", "GET", "POST"}, p \in {"/", "/health", "/ask", "/other"} }
    \cup { WorkerRequest("POST", "/ask", b, question, q) :
            b \in {"obj", "unparseable", "null"},
            question \in { Undef, Str(<<"?">>), Str(EnQuestion) },
            q \in { Undef, Str(<<" ">> \o ArQuestion) } }
WorkerEnvs == { WorkerEnv(TRUE, TRUE), WorkerEnv(FALSE, TRUE), WorkerEnv(TRUE, FALSE) }

NoWorkerCall == Call(0, "none", NoSearchReply)
NoAnswerCall == Call(0, "none", NoAnswerReply)

\* the worker is not running
WorkerOff ==
    /\ wkPc = "off"
    /\ wkSearch = NoWorkerCall
    /\ wkEvidence = <<>>
    /\ wkAnswer = NoAnswerCall
    /\ wkResponse = NoWorkerResponse

----------------------------------------------------------------------------
(* The single-stage handler (part_001) as a state machine *)

\* the single-stage handler is not running
LockedOff ==
    /\ lkPc = "off"
    /\ lkQuestion = <<>>
    /\ lkCall = NoLockedCall
    /\ lkResponse = NoLockedResponse

LockedInit ==
    /\ lkPc = "idle"
    /\ lkQuestion = <<>>
    /\ lkCall = NoLockedCall
    /\ lkResponse = NoLockedResponse
    /\ WorkerOff
    /\ pc = "off"
    /\ req = NoRequest
    /\ extractCall = NoCall
    /\ composeCall = NoCall
    /\ evidenceResult = NoEvidenceSet
    /\ response = NoResponse
    /\ sanPc = "off"
    /\ sanIn = NonObject("null")
    /\ sanOut = NoEvidenceSet
    /\ sanAgain = NoEvidenceSet

LockedReturn(r) ==
    /\ lkResponse' = r
    /\ lkPc' = "done"

\* lines 97-128: from the request to the fetch, or to an early return
LockedStart ==
    /\ lkPc = "idle"
    /\ \E request \in LockedRequests, env \in LockedEnvs :
        LET question == IF TrimmedString(request.question) # <<>>
                        THEN TrimmedString(request.question)
                        ELSE TrimmedString(request.q)
            early(r) == LockedReturn(r) /\ UNCHANGED <<lkQuestion, lkCall>>
        IN  IF request.method = "OPTIONS" THEN early(LockedResponse(200, TRUE, FALSE, <<>>, <<>>, <<>>))
            ELSE IF request.method # "POST" THEN early(LockedError(405, <<"Method not allowed">>))
            ELSE IF ~env.hasApiKey THEN early(LockedError(500, <<"Missing OPENAI_API_KEY">>))
            ELSE IF ~env.hasVectorStore THEN early(LockedError(500, <<"Missing VECTOR_STORE_ID">>))
            ELSE IF ~request.bodyParses THEN early(LockedError(400, <<"Invalid JSON body">>))
            ELSE IF question = <<>> THEN early(LockedError(400, <<"Missing question">>))
            ELSE /\ lkQuestion' = question
                 /\ lkCall' = Call(lkCall.n + 1, "pending", NoLockedReply)
                 /\ lkPc' = "calling"
                 /\ UNCHANGED lkResponse
    /\ UNCHANGED <<handlerVars, sanVars, workerVars>>

\* the fetch of line 51 settles
LockedSettles ==
    /\ lkPc = "calling" /\ lkCall.state = "pending"
    /\ \E r \in LockedReplies : lkCall' = [lkCall EXCEPT !.state = "settled", !.reply = r]
    /\ UNCHANGED <<lkPc, lkQuestion, lkResponse, handlerVars, sanVars, workerVars>>

\* the fetch of line 51 never settles: it is given no signal and no timeout
LockedSilent ==
    /\ lkPc = "calling" /\ lkCall.state = "pending"
    /\ lkCall' = [lkCall EXCEPT !.state = "silent"]
    /\ UNCHANGED <<lkPc, lkQuestion, lkResponse, handlerVars, sanVars, workerVars>>

\* lines 123-149: the handler resumes after the fetch
LockedAfterCall ==
    /\ lkPc = "calling" /\ lkCall.state = "settled"
    /\ IF callOpenAIResponsesThrows(lkCall.reply)
       THEN LockedReturn(LockedResponse(500, FALSE, FALSE, <<>>, <<>>, <<"error">>))
       ELSE LockedReturn(LockedAnswer(callOpenAIResponses(lkCall.reply)))
    /\ UNCHANGED <<lkQuestion, lkCall, handlerVars, sanVars, workerVars>>

LockedNext ==
    \/ LockedStart
    \/ LockedSettles
    \/ LockedSilent
    \/ LockedAfterCall

LockedSpec == LockedInit /\ [][LockedNext]_vars

----------------------------------------------------------------------------
(* The worker's /ask route as a state machine *)

WorkerInit ==
    /\ wkPc = "idle"
    /\ wkSearch = NoWorkerCall
    /\ wkEvidence = <<>>
    /\ wkAnswer = NoAnswerCall
    /\ wkResponse = NoWorkerResponse
    /\ LockedOff
    /\ pc = "off"
    /\ req = NoRequest
    /\ extractCall = NoCall
    /\ composeCall = NoCall
    /\ evidenceResult = NoEvidenceSet
    /\ response = NoResponse
    /\ sanPc = "off"
    /\ sanIn = NonObject("null")
    /\ sanOut = NoEvidenceSet
    /\ sanAgain = NoEvidenceSet

WorkerReturn(r) ==
    /\ wkResponse' = r
    /\ wkPc' = "done"

\* lines 17-19, 331-373 and 419-423: from the request to the search fetch,
\* or to an early response (the /catalog route is not modelled)
WorkerStart ==
    /\ wkPc = "idle"
    /\ \E request \in WorkerRequests, env \in WorkerEnvs :
        LET body == IF request.body = "obj" THEN request
                    ELSE [request EXCEPT !.question = Undef, !.q = Undef]
            question == Trim(OrEmpty(IF Truthy(body.question) THEN body.question ELSE body.q))
            early(r) == WorkerReturn(r) /\ UNCHANGED wkSearch
        IN  IF request.method = "OPTIONS" THEN early(WorkerResponse(200, FALSE, Undef, NotArr(Undef), <<>>))
            ELSE IF request.path \in {"/", "/health"}
            THEN early(WorkerResponse(200, FALSE, Undef, NotArr(Undef), <<"DoseGuide Worker OK">>))
            ELSE IF ~(request.path = "/ask" /\ request.method = "POST")
            THEN early(WorkerError(404, <<"Not found">>))
            ELSE IF request.body = "null" THEN early(WorkerError(500, <<"TypeError">>))
            ELSE IF Len(question) < 2 THEN early(WorkerError(400, <<"Missing question">>))
            ELSE IF ~env.hasVectorStore
            THEN early(WorkerError(500, <<"Missing VECTOR_STORE_ID in Worker env">>))
            ELSE IF ~env.hasApiKey
            THEN early(WorkerError(500, <<"Missing OPENAI_API_KEY in Worker env">>))
            ELSE /\ wkSearch' = Call(wkSearch.n + 1, "pending", NoSearchReply)
                 /\ wkPc' = "searching"
                 /\ UNCHANGED wkResponse
    /\ UNCHANGED <<wkEvidence, wkAnswer, handlerVars, sanVars, lockedVars>>

\* the search fetch of line 54 settles
SearchSettles ==
    /\ wkPc = "searching" /\ wkSearch.state = "pending"
    /\ \E r \in SearchReplies : wkSearch' = [wkSearch EXCEPT !.state = "settled", !.reply = r]
    /\ UNCHANGED <<wkPc, wkEvidence, wkAnswer, wkResponse, handlerVars, sanVars, lockedVars>>

\* the search fetch never settles
SearchSilent ==
    /\ wkPc = "searching" /\ wkSearch.state = "pending"
    /\ wkSearch' = [wkSearch EXCEPT !.state = "silent"]
    /\ UNCHANGED <<wkPc, wkEvidence, wkAnswer, wkResponse, handlerVars, sanVars, lockedVars>>

\* lines 373-397 (with vectorSearch, lines 178-181): the route resumes after
\* the search
AfterSearch ==
    /\ wkPc = "searching" /\ wkSearch.state = "settled"
    /\ LET r == wkSearch.reply
           evidence == extractEvidence(ArrayOrEmpty(r.data))
       IN  IF ~r.fetched
           THEN WorkerReturn(WorkerError(500, <<"Server error">>)) /\ UNCHANGED <<wkEvidence, wkAnswer>>
           ELSE IF ~r.ok
           THEN WorkerReturn(WorkerError(502, <<"VECTOR_SEARCH_FAILED">>)) /\ UNCHANGED <<wkEvidence, wkAnswer>>
           ELSE /\ wkEvidence' = evidence
                /\ IF Len(evidence) = 0
                   THEN WorkerReturn(WorkerNotFound) /\ UNCHANGED wkAnswer
                   ELSE /\ wkAnswer' = Call(wkAnswer.n + 1, "pending", NoAnswerReply)
                        /\ wkPc' = "answering"
                        /\ UNCHANGED wkResponse
    /\ UNCHANGED <<wkSearch, handlerVars, sanVars, lockedVars>>

\* the answer fetch of generateAnswer settles
AnswerSettles ==
    /\ wkPc = "answering" /\ wkAnswer.state = "pending"
    /\ \E r \in AnswerReplies : wkAnswer' = [wkAnswer EXCEPT !.state = "settled", !.reply = r]
    /\ UNCHANGED <<wkPc, wkSearch, wkEvidence, wkResponse, handlerVars, sanVars, lockedVars>>

\* the answer fetch never settles
AnswerSilent ==
    /\ wkPc = "answering" /\ wkAnswer.state = "pending"
    /\ wkAnswer' = [wkAnswer EXCEPT !.state = "silent"]
    /\ UNCHANGED <<wkPc, wkSearch, wkEvidence, wkResponse, handlerVars, sanVars, lockedVars>>

\* lines 399-416: the response to the settled answer call
AnswerResponse(r) ==
    LET result == OrEmptyResult(generateAnswer(r))
        citations == ArrayOrEmpty(result.citations)
    IN  IF ~r.fetched THEN WorkerError(500, <<"Server error">>)
        ELSE IF ~r.ok THEN WorkerError(502, <<"ANSWER_FAILED">>)
        ELSE IF Len(citations) = 0 THEN WorkerNotFound
        ELSE WorkerResponse(200, result.ok = Undef, result.verdict, result.citations, <<>>)

\* lines 390-416: the route resumes after the answer call
AfterAnswer ==
    /\ wkPc = "answering" /\ wkAnswer.state = "settled"
    /\ WorkerReturn(AnswerResponse(wkAnswer.reply))
    /\ UNCHANGED <<wkSearch, wkEvidence, wkAnswer, handlerVars, sanVars, lockedVars>>

WorkerNext ==
    \/ WorkerStart
    \/ SearchSettles
    \/ SearchSilent
    \/ AfterSearch
    \/ AnswerSettles
    \/ AnswerSilent
    \/ AfterAnswer

WorkerSpec == WorkerInit /\ [][WorkerNext]_vars

----------------------------------------------------------------------------
(* The handler *)

Init ==
    /\ pc = "idle"
    /\ req = NoRequest
    /\ extractCall = NoCall
    /\ composeCall = NoCall
    /\ evidenceResult = NoEvidenceSet
    /\ response = NoResponse
    /\ sanPc = "off"
    /\ sanIn = NonObject("null")
    /\ sanOut = NoEvidenceSet
    /\ sanAgain = NoEvidenceSet
    /\ LockedOff
    /\ WorkerOff

Return(r) ==
    /\ response' = r
    /\ pc' = "done"

\* lines 209-321: from the request to the first fetch, or to an early return
Start ==
    /\ pc = "idle"
    /\ \E event \in Events, env \in Envs :
        LET payload == event.payload
            drugKey == NormField(payload.drugKey, <<>>)
            question == Trim(OrEmpty(payload.question))
            langSetting == NormField(payload.lang, LangAuto)
            mode == NormField(payload.mode, ModeHybrid)
            lang == inferLangFromUserSetting(langSetting, question)
            early(r) == Return(r) /\ UNCHANGED <<req, extractCall>>
        IN  IF event.httpMethod = "OPTIONS" THEN early(ErrorResponse(200, <<>>))
            ELSE IF event.httpMethod # "POST" THEN early(ErrorResponse(405, <<"Method not allowed">>))
            ELSE IF ~env.hasApiKey THEN early(ErrorResponse(500, <<"Missing OPENAI_API_KEY">>))
            ELSE IF ~event.bodyParses THEN early(ErrorResponse(400, <<"Invalid JSON body">>))
            ELSE IF drugKey = <<>> THEN early(ErrorResponse(400, <<"drugKey is required">>))
            ELSE IF question = <<>> THEN early(ErrorResponse(400, <<"question is required">>))
            ELSE IF ~env.refsReadable THEN early(ErrorResponse(500, <<"Cannot read refs.manifest.json">>))
            ELSE IF ~Truthy(VectorStoreId(drugKey))
            THEN /\ Return(HttpResponse(200, <<>>, UnsupportedDrug, FALSE, NoResult, <<>>, <<>>))
                 /\ req' = Request(drugKey, question, lang, mode)
                 /\ UNCHANGED extractCall
            ELSE /\ req' = Request(drugKey, question, lang, mode)
                 /\ extractCall' = Call(extractCall.n + 1, "pending", NoReply)
                 /\ pc' = "extracting"
                 /\ UNCHANGED response
    /\ UNCHANGED <<composeCall, evidenceResult, sanVars, otherVars>>

\* the first fetch settles: the network or the API answers
ExtractSettles ==
    /\ pc = "extracting" /\ extractCall.state = "pending"
    /\ \E r \in ExtractReplies : extractCall' = [extractCall EXCEPT !.state = "settled", !.reply = r]
    /\ UNCHANGED <<pc, req, composeCall, evidenceResult, response, sanVars, otherVars>>

\* the first fetch never settles: callOpenAI passes fetch no signal and no timeout
ExtractSilent ==
    /\ pc = "extracting" /\ extractCall.state = "pending"
    /\ extractCall' = [extractCall EXCEPT !.state = "silent"]
    /\ UNCHANGED <<pc, req, composeCall, evidenceResult, response, sanVars, otherVars>>

\* mutant: the catch block issues the extraction call again
AfterExtractRetries ==
    /\ pc = "extracting" /\ extractCall.state = "settled"
    /\ callOpenAIThrows(extractCall.reply)
    /\ extractCall' = Call(extractCall.n + 1, "pending", NoReply)
    /\ UNCHANGED <<pc, req, composeCall, evidenceResult, response, sanVars, otherVars>>

\* lines 319-393: the handler resumes after the first fetch
AfterExtract ==
    /\ pc = "extracting" /\ extractCall.state = "settled"
    /\ LET r == extractCall.reply
           parsed1 == safeJsonParse(extractOutputText(r))
           sane == SanityOf[parsed1].value
       IN  IF callOpenAIThrows(r) \/ SanityOf[parsed1].threw
           THEN /\ Return(NotFoundResponse(req.lang, ExtractionFailedTag, <<>>))
                /\ UNCHANGED <<evidenceResult, composeCall>>
           ELSE /\ evidenceResult' = sane
                /\ IF sane.verdict # VFound
                   THEN /\ Return(NotFoundResponse(req.lang, <<>>, sane.note))
                        /\ UNCHANGED composeCall
                   ELSE /\ composeCall' = Call(composeCall.n + 1, "pending", NoReply)
                        /\ pc' = "composing"
                        /\ UNCHANGED response
    /\ UNCHANGED <<req, extractCall, sanVars, otherVars>>

\* the second fetch settles
ComposeSettles ==
    /\ pc = "composing" /\ composeCall.state = "pending"
    /\ \E r \in ComposeReplies(evidenceResult.evidence) :
         composeCall' = [composeCall EXCEPT !.state = "settled", !.reply = r]
    /\ UNCHANGED <<pc, req, extractCall, evidenceResult, response, sanVars, otherVars>>

\* the second fetch never settles
ComposeSilent ==
    /\ pc = "composing" /\ composeCall.state = "pending"
    /\ composeCall' = [composeCall EXCEPT !.state = "silent"]
    /\ UNCHANGED <<pc, req, extractCall, evidenceResult, response, sanVars, otherVars>>

\* lines 395-417: finalObj
FinalObj(r, lang) ==
    IF callOpenAIThrows(r)
    THEN ComposeFailedAnswer(lang)
    ELSE VerifyAnswer(safeJsonParse(extractOutputText(r)), lang)

\* lines 395-464: the handler resumes after the second fetch
AfterCompose ==
    /\ pc = "composing" /\ composeCall.state = "settled"
    /\ LET finalObj == FinalObj(composeCall.reply, req.lang)
           result == BuildResult(finalObj, evidenceResult.evidence, req.mode)
       IN  IF RenderThrows(result, req.mode)
           THEN pc' = "threw" /\ UNCHANGED response
           ELSE Return(HttpResponse(200, <<>>, RenderReply(result, req.mode, req.lang),
                                    TRUE, result, <<>>, <<>>))
    /\ UNCHANGED <<req, extractCall, composeCall, evidenceResult, sanVars, otherVars>>

\* the values of payload.mode after line 229
Modes == { ModeHybrid, ModeVerbatim, ModeShort, ModeLink, <<"t","a","b","l","e">> }

\* lines 319-432: the result object the handler builds for the request at
\* hand, had its mode been m, from the replies the two calls settled with
HandlerResult(m) ==
    LET r1 == extractCall.reply
        parsed1 == safeJsonParse(extractOutputText(r1))
    IN  IF callOpenAIThrows(r1) \/ SanityOf[parsed1].threw
        THEN AsResult(minimalNotFound(req.lang))
        ELSE IF SanityOf[parsed1].value.verdict # VFound
        THEN AsResult(minimalNotFound(req.lang))
        ELSE BuildResult(FinalObj(composeCall.reply, req.lang),
                         SanityOf[parsed1].value.evidence, m)

Next ==
    \/ Start
    \/ ExtractSettles
    \/ ExtractSilent
    \/ AfterExtract
    \/ ComposeSettles
    \/ ComposeSilent
    \/ AfterCompose

Spec == Init /\ [][Next]_vars

\* A request that arrived is handled, a fetch that was issued is answered or
\* left unanswered, and a continuation runs once its fetch has settled.
FairSpec == Spec /\ WF_vars(Next)

----------------------------------------------------------------------------
(* The sanitizer harness *)

SanInit ==
    /\ sanPc = "in"
    /\ sanIn \in SanSmall \cup { EvidenceObj(VFound, Arr(<<>>), Str(ShortNote)) }
    /\ sanOut = NoEvidenceSet
    /\ sanAgain = NoEvidenceSet
    /\ LockedOff
    /\ WorkerOff
    /\ pc = "idle"
    /\ req = NoRequest
    /\ extractCall = NoCall
    /\ composeCall = NoCall
    /\ evidenceResult = NoEvidenceSet
    /\ response = NoResponse

\* the array consists of the entries the oracle may put at each position
IsRawArray(a) == \A i \in DOMAIN a : \E c \in 1..4 : a[i] = RawEntryAt(i, c)

\* the oracle's evidence array gets one more entry before it is handed over
Grow ==
    /\ sanPc = "in"
    /\ sanIn.k = "obj" /\ sanIn.verdict = VFound /\ sanIn.note = Str(ShortNote)
    /\ sanIn.evidence.t = "arr"
    /\ Len(sanIn.evidence.items) < MaxRawQuotes
    /\ IsRawArray(sanIn.evidence.items)
    /\ \E c \in 1..4 :
         sanIn' = [sanIn EXCEPT !.evidence.items = Append(@, RawEntryAt(Len(@) + 1, c))]
    /\ UNCHANGED <<sanPc, sanOut, sanAgain, handlerVars, otherVars>>

Sanitize ==
    /\ sanPc = "in"
    /\ IF enforceThrows(sanIn)
       THEN sanPc' = "threw" /\ UNCHANGED sanOut
       ELSE sanPc' = "out" /\ sanOut' = enforceEvidenceSanity(sanIn)
    /\ UNCHANGED <<sanIn, sanAgain, handlerVars, otherVars>>

\* the returned object read back as an argument of enforceEvidenceSanity
AsEvidenceObj(es) == EvidenceObj(es.verdict, Arr(es.evidence), Str(es.note))

\* enforceEvidenceSanity is applied to what it returned
Resanitize ==
    /\ sanPc = "out"
    /\ IF enforceThrows(AsEvidenceObj(sanOut))
       THEN sanPc' = "threw" /\ UNCHANGED sanAgain
       ELSE sanPc' = "again" /\ sanAgain' = enforceEvidenceSanity(AsEvidenceObj(sanOut))
    /\ UNCHANGED <<sanIn, sanOut, handlerVars, otherVars>>

SanNext == Grow \/ Sanitize \/ Resanitize

SanSpec == SanInit /\ [][SanNext]_vars

----------------------------------------------------------------------------
(* Claims *)

ExtractUnparseable ==
    /\ extractCall.state = "settled"
    /\ extractCall.reply.fetched /\ extractCall.reply.ok
    /\ extractOutputText(extractCall.reply).k # "json"

ExtractTransportFailed ==
    /\ extractCall.state = "settled"
    /\ ~extractCall.reply.fetched \/ ~extractCall.reply.ok

ComposeUnparseable ==
    /\ composeCall.state = "settled"
    /\ composeCall.reply.fetched /\ composeCall.reply.ok
    /\ extractOutputText(composeCall.reply).k # "json"

ComposeTransportFailed ==
    /\ composeCall.state = "settled"
    /\ ~composeCall.reply.fetched \/ ~composeCall.reply.ok

HasResult == response.sent /\ response.hasResult

\* C1: whatever value enforceEvidenceSanity is given (null, a non-object, an
\* unknown verdict, a non-array evidence field, null entries, entries without
\* fields), it returns without throwing, the returned verdict is FOUND or
\* NOT_FOUND, and a returned FOUND has 1 to 6 quotes, each of normalised
\* length >= 8, no two equal when compared case-insensitively.
C1_SanitizerOutputValid ==
    /\ sanPc # "threw"
    /\ sanPc = "out" =>
        /\ sanOut.verdict \in {VFound, VNotFound}
        /\ sanOut.verdict = VFound =>
            /\ Len(sanOut.evidence) \in 1..6
            /\ \A i \in DOMAIN sanOut.evidence :
                 Len(normalizeSpace(sanOut.evidence[i].quote)) >= 8
            /\ \A i, j \in DOMAIN sanOut.evidence :
                 i # j => toLowerCase(sanOut.evidence[i].quote.s) # toLowerCase(sanOut.evidence[j].quote.s)

\* C1 witness: a FOUND array of seven usable, distinct quotes was cut to the
\* first six
C1_Witness ==
    /\ sanPc = "out"
    /\ sanOut.verdict = VFound
    /\ Len(sanOut.evidence) = 6
    /\ Len(sanIn.evidence.items) > 6
    /\ sanIn.evidence.items[7].quote = Str(QuoteText(7))
    /\ \A i \in DOMAIN sanOut.evidence : sanOut.evidence[i].quote # Str(QuoteText(7))

\* C2: in every response that carries a result, a result verdict FOUND comes
\* with a verbatim array of at least one entry, whatever the composer returned.
C2_FoundHasVerbatim ==
    HasResult /\ response.result.verdict = VFound =>
        /\ response.result.verbatim.t = "arr"
        /\ Len(response.result.verbatim.items) >= 1

\* C2 witness: a response with verdict FOUND was returned
C2_Witness ==
    /\ pc = "done" /\ HasResult
    /\ response.result.verdict = VFound
    /\ Len(response.result.verbatim.items) >= 1

C4_UnknownTopicNoCalls ==
    req # NoRequest /\ req.drugKey # KeyHep =>
        /\ extractCall.n = 0 /\ composeCall.n = 0
        /\ response.sent /\ response.reply = UnsupportedDrug /\ ~response.hasResult

\* C4 witness: the fixed message was returned for a key the table lacks
C4_Witness ==
    /\ pc = "done"
    /\ req.drugKey = <<"a","m","o">>
    /\ response.reply = UnsupportedDrug
    /\ extractCall.n = 0

\* C5: the composition call is issued only once the sanitizer has returned
\* FOUND with at least one quote; when the sanitizer returned NOT_FOUND the
\* composer is not called and the response is the canned not-found result
\* (verdict NOT_FOUND, empty verbatim).
C5_ComposeOnlyAfterFound ==
    /\ composeCall.n > 0 =>
        evidenceResult.verdict = VFound /\ Len(evidenceResult.evidence) >= 1
    /\ evidenceResult.verdict = VNotFound =>
        /\ composeCall.n = 0
        /\ HasResult
        /\ response.result.verdict = VNotFound
        /\ response.result.verbatim = Arr(<<>>)
        /\ response.reply = minimalNotFound(req.lang).short_answer.s

\* C5 witness: the oracle said FOUND, no quote survived, the handler returned
\* not-found without composing; and elsewhere the composer was called
C5_Witness ==
    /\ pc = "done"
    /\ evidenceResult.verdict = VNotFound
    /\ evidenceResult.note = NoUsableNote
    /\ composeCall.n = 0

\* C6: a returned result with verdict FOUND holds at least one quote whose
\* normalised text is the text of a quote of the request's sanitized evidence.
C6_FoundQuoteCarriedForward ==
    HasResult /\ response.result.verdict = VFound =>
        \E i \in DOMAIN response.result.verbatim.items :
            \E j \in DOMAIN evidenceResult.evidence :
                normalizeSpace(OptField(response.result.verbatim.items[i], "quote"))
                    = evidenceResult.evidence[j].quote.s

\* C7: when the composition call fails (fetch rejected, error status, or a
\* text that does not parse), the returned result is the strict canned
\* not-found: verdict NOT_FOUND, the canned short answer, an empty verbatim
\* list, an empty source hint, and the canned warning plus one more.
C7_ComposeFailureStrictNotFound ==
    HasResult /\ (ComposeTransportFailed \/ ComposeUnparseable) =>
        /\ response.result.verdict = VNotFound
        /\ response.result.short_answer = minimalNotFound(req.lang).short_answer
        /\ response.result.verbatim = Arr(<<>>)
        /\ response.result.source_hint = Str(<<>>)
        /\ response.result.warnings.t = "arr"
        /\ Len(response.result.warnings.items) = 2
        /\ response.result.warnings.items[1] = minimalNotFound(req.lang).warnings.items[1]

\* C8: a response to a request whose extraction failed carries error_guardrail
\* "evidence_extraction_failed", one whose composition failed carries
\* "answer_composition_failed", and in both the reply is the canned not-found
\* message in every output mode.
C8_FailuresAreTagged ==
    /\ response.sent /\ (ExtractTransportFailed \/ ExtractUnparseable) =>
        /\ response.error_guardrail = <<"evidence_extraction_failed">>
        /\ response.reply = minimalNotFound(req.lang).short_answer.s
    /\ response.sent /\ (ComposeTransportFailed \/ ComposeUnparseable) =>
        /\ response.error_guardrail = <<"answer_composition_failed">>
        /\ response.reply = minimalNotFound(req.lang).short_answer.s

IsString(v) == v.t = "str"

IsQuoteObject(e) ==
    ~e.nullish /\ IsString(e.quote) /\ IsString(e.section_hint) /\ IsString(e.page_hint)

\* C9: whatever the oracle returns at either stage, no exception escapes the
\* handler and a returned result conforms to the answer schema: verdict FOUND
\* or NOT_FOUND, verbatim an array of at most 6 quote objects, warnings an
\* array of strings.
C9_ResultConformsToSchema ==
    /\ pc # "threw"
    /\ HasResult =>
        /\ response.result.verdict \in {VFound, VNotFound}
        /\ response.result.verbatim.t = "arr"
        /\ Len(response.result.verbatim.items) <= 6
        /\ \A i \in DOMAIN response.result.verbatim.items :
             IsQuoteObject(response.result.verbatim.items[i])
        /\ response.result.warnings.t = "arr"
        /\ \A i \in DOMAIN response.result.warnings.items :
             IsString(response.result.warnings.items[i])

\* C10: every request that awaits an oracle call eventually gets a response
\* (or, at worst, ends), even if the call is never answered.
C10_EveryRequestAnswered ==
    (pc \in {"extracting", "composing"}) ~> (pc \in {"done", "threw"})

\* C11: within one request the extraction call is issued at most once and the
\* composition call at most once (no retry after a failure); the composition
\* call is issued only after the extraction call has settled and its parsed
\* text has been sanitized; the two calls are never pending together.
C11_CallsOnceAndInOrder ==
    /\ extractCall.n <= 1 /\ composeCall.n <= 1
    /\ composeCall.n > 0 =>
        /\ extractCall.state = "settled"
        /\ evidenceResult =
             enforceEvidenceSanity(safeJsonParse(extractOutputText(extractCall.reply)))
    /\ ~(extractCall.state \in {"pending", "silent"} /\ composeCall.state \in {"pending", "silent"})

\* C11 witness: the request ended after both calls were issued once and the
\* composition call failed, without either call being issued again
C11_Witness ==
    /\ pc = "done"
    /\ extractCall.n = 1 /\ composeCall.n = 1
    /\ ComposeTransportFailed

\* C12: sanitizing is idempotent: enforceEvidenceSanity applied to its own
\* result returns that result again, in verdict, in the ordered quote list
\* (quote text and both hints) and in the note, also for notes longer than
\* the clamp of 240 characters.
C12_SanitizeIdempotent ==
    sanPc = "again" =>
        /\ sanAgain.verdict = sanOut.verdict
        /\ sanAgain.evidence = sanOut.evidence
        /\ sanAgain.note = sanOut.note

\* C12 witness: a FOUND set whose note was longer than the clamp was
\* sanitized twice
C12_Witness ==
    /\ sanPc = "again"
    /\ sanOut.verdict = VFound
    /\ Len(sanIn.note.s) > NoteClamp
    /\ Len(sanOut.note) = NoteClamp + 1
    /\ sanAgain.note = sanOut.note

\* the raw evidence array handed to the sanitizer (empty when it is no array)
RawItems == IF sanIn.evidence.t = "arr" THEN sanIn.evidence.items ELSE <<>>

\* the whitespace-normalised, lower-cased texts of the raw quotes
RawKeys ==
    [i \in DOMAIN RawItems |-> toLowerCase(normalizeSpace(OptField(RawItems[i], "quote")))]

\* the positions of the raw quotes that are long enough and have no earlier
\* raw quote of the same text, compared case-insensitively
Survivors(keys) ==
    { i \in DOMAIN keys :
        Len(keys[i]) >= 8 /\ \A j \in 1..(i - 1) : keys[j] # keys[i] }

\* C13: for a raw verdict FOUND the returned quote list consists of exactly
\* the raw quotes, whitespace-normalised, that have at least 8 characters and
\* no earlier case-insensitive duplicate, in extraction order, cut to the
\* first 6; if there is no such quote the result is NOT_FOUND with no quotes
\* and the no-usable-evidence note; for any other raw verdict the result is
\* NOT_FOUND with no quotes.
C13_QuoteListExact ==
    sanPc \in {"out", "again"} =>
        IF sanIn.k = "obj" /\ sanIn.verdict = VFound
        THEN LET keys == RawKeys
                 surv == Survivors(keys)
                 kept == { i \in surv : Cardinality({ j \in surv : j <= i }) <= 6 }
             IN  IF surv = {}
                 THEN sanOut = EvidenceSet(VNotFound, <<>>, NoUsableNote)
                 ELSE /\ sanOut.verdict = VFound
                      /\ Len(sanOut.evidence) = Cardinality(kept)
                      /\ \A i \in kept :
                           LET k == Cardinality({ j \in kept : j <= i })
                           IN  /\ sanOut.evidence[k].quote
                                    = Str(normalizeSpace(OptField(RawItems[i], "quote")))
                               /\ sanOut.evidence[k].section_hint
                                    = Str(normalizeSpace(OptField(RawItems[i], "section_hint")))
                               /\ sanOut.evidence[k].page_hint
                                    = Str(normalizeSpace(OptField(RawItems[i], "page_hint")))
        ELSE sanOut.verdict = VNotFound /\ sanOut.evidence = <<>>

\* C13 witness: of four raw quotes the second repeated the first in capitals
\* and the third was too short; the first and the fourth were returned
C13_Witness ==
    /\ sanPc = "out"
    /\ Len(RawItems) = 4
    /\ RawItems[1] = RawEntryAt(1, 1)
    /\ RawItems[2] = RawEntryAt(2, 2)
    /\ RawItems[3] = RawEntryAt(3, 3)
    /\ Len(sanOut.evidence) = 2
    /\ sanOut.evidence[2].quote = Str(QuoteText(4))

\* C14: every response with status 200 to a validated request is of one of
\* three kinds: the topic-unsupported message; an explicit not-found message;
\* or a grounded answer, i.e. a result with verdict FOUND and at least one
\* quote.  In particular a reply that shows answer text or quotes comes only
\* with result verdict FOUND, in every output mode.
C14_ReplyIsOneOfThreeKinds ==
    response.sent /\ response.statusCode = 200 /\ req # NoRequest =>
        \/ ~response.hasResult /\ response.reply = UnsupportedDrug
        \/ /\ response.hasResult
           /\ response.reply \in { minimalNotFound(req.lang).short_answer.s,
                                   SourceNotFoundEn, SourceNotFoundAr }
        \/ /\ response.hasResult
           /\ response.result.verdict = VFound
           /\ response.result.verbatim.t = "arr"
           /\ Len(response.result.verbatim.items) >= 1

\* quote e as entry number i of a verbatim reply
NumberedQuote(e, i) ==
    <<Digits[i], ")", " ">> \o e.quote.s
    \o (IF e.section_hint.s # <<>>
        THEN <<"\n", " ", " ", " ", "[">> \o e.section_hint.s \o <<"]">>
        ELSE <<>>)
    \o (IF e.page_hint.s # <<>> THEN <<" ">> \o e.page_hint.s ELSE <<>>)

RECURSIVE NumberedQuotes(_, _)
\* the first n quotes as numbered entries separated by a blank line
NumberedQuotes(items, n) ==
    IF n = 0 THEN <<>>
    ELSE (IF n > 1 THEN NumberedQuotes(items, n - 1) \o <<"\n", "\n">> ELSE <<>>)
         \o NumberedQuote(items[n], n)

\* C15: in mode verbatim the reply of a response with a result is built from
\* the result's quotes only: entry i is "i) <quote>", then a newline, three
\* spaces and "[<section hint>]" if the section hint is non-empty, then a
\* space and the page hint if the page hint is non-empty; entries are
\* separated by a blank line; the composed short answer is not in the reply
\* (nor in the result); a result without quotes gets the canned not-found
\* message.
C15_VerbatimReply ==
    pc = "done" /\ HasResult /\ req.mode = ModeVerbatim =>
        LET quotes == response.result.verbatim
        IN  /\ quotes = Arr(<<>>) =>
                response.reply = minimalNotFound(req.lang).short_answer.s
            /\ ( /\ quotes.t = "arr" /\ Len(quotes.items) >= 1
                 /\ \A i \in DOMAIN quotes.items : IsQuoteObject(quotes.items[i]) ) =>
                response.reply = NumberedQuotes(quotes.items, Len(quotes.items))
            /\ \A i \in DOMAIN response.reply : response.reply[i] # AnswerText[1]
            /\ composeCall.n > 0 => response.result.short_answer = Str(<<>>)

\* C15 witness: two quotes, the first with both hints, were rendered in mode
\* verbatim although the composer had also written a short answer
C15_Witness ==
    /\ pc = "done" /\ HasResult /\ req.mode = ModeVerbatim
    /\ Len(response.result.verbatim.items) = 2
    /\ response.result.verbatim.items[1] = Entry(Str(QuoteText(1)), Str(<<"D","o","s","i","n","g"," ","A">>), Str(PageText))
    /\ extractOutputText(composeCall.reply).k = "json"
    /\ safeJsonParse(extractOutputText(composeCall.reply)).short_answer = Str(AnswerText)
    /\ SubSeq(response.reply, 1, 28)
         = <<"1", ")", " ", "M", "a", "x", " ", "1", "g", "/", "d", "\n", " ", " ", " ",
             "[", "D", "o", "s", "i", "n", "g", " ", "A", "]", " ", "p", ".">>

\* the reply that mode link is said to give for the returned result: the
\* fixed source-not-found message when the source hint is empty, otherwise
\* the source hint followed by the text of the first quote and of no other
LinkReplyAsSpecified ==
    LET result == response.result
        first == IF /\ result.verbatim.t = "arr" /\ Len(result.verbatim.items) >= 1
                    /\ ~result.verbatim.items[1].nullish
                    /\ result.verbatim.items[1].quote.t = "str"
                 THEN result.verbatim.items[1].quote.s
                 ELSE <<>>
    IN  IF result.source_hint.s = <<>>
        THEN response.reply = (IF req.lang = LangEn THEN SourceNotFoundEn ELSE SourceNotFoundAr)
        ELSE response.reply =
                (IF req.lang = LangEn THEN <<"Source: ">> ELSE <<"[ar] Source: ">>)
                \o result.source_hint.s
                \o (IF req.lang = LangEn THEN <<"\n\nEvidence:\n">> ELSE <<"\n\n[ar] Evidence:\n">>)
                \o first

\* C16 (as stated): in mode link every response with a result has the
\* source-not-found message as its reply when the result's source hint is
\* empty, whatever the verdict and the quotes, and otherwise the source hint
\* followed by the first quote only.
C16_LinkReplyAlways ==
    pc = "done" /\ HasResult /\ req.mode = ModeLink => LinkReplyAsSpecified

\* C16 (amended): in mode link a response returned after the composition
\* stage has the reply stated above; a response returned before it (the
\* extraction failed or found nothing) has the canned not-found message as
\* its reply although its result's source hint is empty.
C16_LinkReplyAfterCompose ==
    pc = "done" /\ HasResult /\ req.mode = ModeLink =>
        IF composeCall.n > 0
        THEN LinkReplyAsSpecified
        ELSE /\ response.result.source_hint = Str(<<>>)
             /\ response.reply = minimalNotFound(req.lang).short_answer.s

\* C16 witness: the composer answered FOUND with quotes and no source hint,
\* and the reply in mode link is the source-not-found message
C16_Witness ==
    /\ pc = "done" /\ HasResult /\ req.mode = ModeLink
    /\ composeCall.n > 0
    /\ response.result.verdict = VFound
    /\ Len(response.result.verbatim.items) >= 1
    /\ response.result.source_hint = Str(<<>>)
    /\ response.reply = SourceNotFoundEn

\* C17: in modes short and hybrid (hybrid is also the mode of a request that
\* names none) the reply of a response with a result is the result's short
\* answer when the result verdict is FOUND and the short answer is non-empty,
\* and the canned not-found message in every other case.
C17_ShortReply ==
    pc = "done" /\ HasResult /\ req.mode \in {ModeShort, ModeHybrid} =>
        IF response.result.verdict = VFound /\ response.result.short_answer.s # <<>>
        THEN response.reply = response.result.short_answer.s
        ELSE response.reply = minimalNotFound(req.lang).short_answer.s

\* C17 witness: the composer answered FOUND with a short answer and the
\* reply in mode hybrid is that short answer
C17_Witness ==
    /\ pc = "done" /\ HasResult /\ req.mode = ModeHybrid
    /\ response.result.verdict = VFound
    /\ response.result.short_answer = Str(AnswerText)
    /\ response.reply = AnswerText

\* C18: the output mode affects only presentation: once a request's oracle
\* calls have settled, the result the handler builds from them has the same
\* verdict and the same verbatim quotes for every output mode, and the
\* returned result is the one built for the request's own mode; so the
\* quotes stay attached to the result in every mode and rendering never
\* changes the verdict.
C18_ModeOnlyPresentation ==
    pc \in {"done", "threw"} /\ extractCall.state = "settled" =>
        /\ \A m \in Modes :
             /\ HandlerResult(m).verdict = HandlerResult(req.mode).verdict
             /\ HandlerResult(m).verbatim = HandlerResult(req.mode).verbatim
        /\ HasResult => response.result = HandlerResult(req.mode)

\* C18 witness: in mode short the reply is the terse short answer, and the
\* result still carries the quotes that mode verbatim would show
C18_Witness ==
    /\ pc = "done" /\ HasResult /\ req.mode = ModeShort
    /\ response.reply = AnswerText
    /\ response.result.verdict = VFound
    /\ response.result.verbatim = Arr(evidenceResult.evidence)
    /\ Len(evidenceResult.evidence) = 2
    /\ HandlerResult(ModeVerbatim).verbatim = response.result.verbatim

\* C19: in a response of the single-stage handler that carries a verdict,
\* the verdict is NOT_FOUND exactly when the answer is the literal
\* "Not found in protocol", for every oracle text including the empty one;
\* verdict FOUND never comes with that answer.
C19_VerdictAgreesWithAnswer ==
    lkResponse.sent /\ lkResponse.hasVerdict =>
        (lkResponse.verdict = <<"NOT_FOUND">> <=> lkResponse.answer = NotFoundInProtocol)

\* C20: in the worker's /ask route the answer call is issued only when
\* extractEvidence returned between 1 and 8 evidence items, each with a
\* non-blank excerpt; every ok:true response whose verdict is not NOT_FOUND
\* carries at least one citation; and an answer whose citation list is empty
\* (or no list) is answered with verdict NOT_FOUND and no citations.
C20_WorkerHardGates ==
    /\ wkAnswer.n > 0 =>
        /\ Len(wkEvidence) >= 1 /\ Len(wkEvidence) <= 8
        /\ \A i \in DOMAIN wkEvidence :
             \E j \in DOMAIN wkEvidence[i].excerpt : wkEvidence[i].excerpt[j] \notin WhiteSpace
    /\ wkResponse.sent /\ wkResponse.ok /\ wkResponse.verdict # VNotFound =>
        /\ wkResponse.citations.t = "arr"
        /\ Len(wkResponse.citations.items) >= 1
    /\ ( /\ wkResponse.sent /\ wkAnswer.state = "settled"
         /\ wkAnswer.reply.fetched /\ wkAnswer.reply.ok
         /\ LET written == IF wkAnswer.reply.output_text.k # "empty"
                           THEN wkAnswer.reply.output_text ELSE wkAnswer.reply.output
            IN  \/ written.k # "json"
                \/ written.v.citations.t # "arr"
                \/ written.v.citations.items = <<>> ) =>
        /\ wkResponse.ok
        /\ wkResponse.verdict = VNotFound
        /\ wkResponse.citations = Arr(<<>>)

\* C20 witness: nine search results with text gave eight evidence items, the
\* answer was generated and returned with verdict OK and a citation
C20_Witness ==
    /\ wkPc = "done"
    /\ Len(ArrayOrEmpty(wkSearch.reply.data)) = 9
    /\ \A i \in 1..9 : wkSearch.reply.data.items[i] = TextItem
    /\ Len(wkEvidence) = 8
    /\ wkEvidence[8].id = <<"E", "8">>
    /\ wkAnswer.n = 1
    /\ wkResponse.ok /\ wkResponse.verdict = VOk
    /\ Len(wkResponse.citations.items) >= 1

====
